---- MODULE Spec2Model ----
(***************************************************************************)
(* Model of clean_text.py: the character-whitelist line filter, the        *)
(* derivation of the output path, and the command-line run (argument       *)
(* checks, line-count pass, processing pass, error exits).                 *)
(*                                                                         *)
(* A character is its Unicode code point; a string is a sequence of code   *)
(* points.  File contents are modelled after UTF-8 decoding.               *)
(***************************************************************************)
EXTENDS Integers, Sequences, FiniteSets, TLC

VARIABLES
    argv,              \* sys.argv: <<program name, positional arguments...>>
    fs,                \* the file system: path |-> File(content) or Directory
    pc,                \* position of the run in main / clean_text_file
    input_file_path,   \* sys.argv[1] once main has read it
    output_file_path,  \* clean_text_file's derived output path
    total_lines,       \* result of the line-count pass
    in_file,           \* lines the processing pass has still to read
    out_file,          \* "closed" | "open": the output file handle
    printed,           \* messages printed so far, in order
    exit_code,         \* -1 while running, then the process's exit status
    done_lines,        \* history: the raw lines processed so far, in order
    opened,            \* history: <<path, mode>> of every open() so far
    fs0,               \* history: the file system when the run started
    line,              \* the filter's input line (pure-function check)
    cleaned,           \* stripped_line(line), or Absent
    recleaned,         \* the filter applied to its own result
    fpc                \* position of the pure-function check

vars == <<argv, fs, pc, input_file_path, output_file_path, total_lines,
          in_file, out_file, printed, exit_code, done_lines, opened, fs0,
          line, cleaned, recleaned, fpc>>

runVars == <<argv, fs, pc, input_file_path, output_file_path, total_lines,
             in_file, out_file, printed, exit_code, done_lines, opened, fs0>>

filterVars == <<line, cleaned, recleaned, fpc>>

(***************************************************************************)
(* Bounds of the model.                                                    *)
(***************************************************************************)
MaxLineLen == 3   \* longest line given to the filter on its own
MaxFileLen == 4   \* longest input file content, in characters
MaxPathLen == 5   \* longest enumerated input path, in characters

\* The loop body's result for one line: no line, or the one line written.
Absent  == << >>
Some(s) == << s >>

NL == <<10>>      \* the string '\n'

(***************************************************************************)
(* Strings of length at most n over an alphabet.                           *)
(***************************************************************************)
StringsUpTo(alphabet, n) == UNION {[1..k -> alphabet] : k \in 0..n}

(***************************************************************************)
(* The filter.                                                             *)
(***************************************************************************)

\* Python's Unicode whitespace: what \s matches in a str pattern and what
\* str.strip() removes (9-13, 28-31, 32, 0x85, 0xA0, 0x1680, 0x2000-0x200A,
\* 0x2028, 0x2029, 0x202F, 0x205F, 0x3000).
IsSpace(c) ==
    \/ c \in 9..13
    \/ c \in 28..32
    \/ c \in {133, 160, 5760}
    \/ c \in 8192..8202
    \/ c \in {8232, 8233, 8239, 8287, 12288}

\* The punctuation listed in the character class, by code point:
\*   , . ! ? ; :            44 46 33 63 59 58
\*   fullwidth , . ! ? ; :  65292 12290 65281 65311 65307 65306
\*   ' "                    39 34
\*   curly double, single   8220 8221 8216 8217
\*   ideographic comma      12289
\*   ~                      126
\*   angle brackets         12298 12299 12296 12297
\*   lenticular brackets    12304 12305 12310 12311
\*   ellipsis, em dash      8230 8212
\*   - and middle dot       45 183
pattern_punctuation ==
    {44, 46, 33, 63, 59, 58,
     65292, 12290, 65281, 65311, 65307, 65306,
     39, 34, 8220, 8221, 8216, 8217,
     12289, 126,
     12298, 12299, 12296, 12297, 12304, 12305, 12310, 12311,
     8230, 8212, 45, 183}

\* Mutant of pattern: the ideograph range ends one code point too far.
pattern_RangeOffByOne(c) ==
    ~ \/ c \in 19968..40870
      \/ c \in 97..122
      \/ c \in 65..90
      \/ c \in 48..57
      \/ IsSpace(c)
      \/ c \in pattern_punctuation

\* pattern: the negated character class; TRUE when the regex matches c,
\* that is when c is a character to delete.
pattern(c) ==
    ~ \/ c \in 19968..40869          \* 一-龥
      \/ c \in 97..122               \* a-z
      \/ c \in 65..90                \* A-Z
      \/ c \in 48..57                \* 0-9
      \/ IsSpace(c)                  \* \s
      \/ c \in pattern_punctuation

Kept(c) == ~pattern(c)

\* pattern.sub('', line)
cleaned_line(l) == SelectSeq(l, Kept)

RECURSIVE LStrip(_)
LStrip(s) == IF s # <<>> /\ IsSpace(Head(s)) THEN LStrip(Tail(s)) ELSE s

RECURSIVE RStrip(_)
RStrip(s) ==
    IF s # <<>> /\ IsSpace(s[Len(s)]) THEN RStrip(SubSeq(s, 1, Len(s) - 1)) ELSE s

\* str.strip() with no argument
Strip(s) == RStrip(LStrip(s))

\* Mutant of stripped_line: the strip() call is missing.
stripped_line_NoStrip(l) == cleaned_line(l)

\* Mutant of stripped_line: strip() is applied before the substitution.
stripped_line_StripFirst(l) == cleaned_line(Strip(l))

\* cleaned_line.strip()
stripped_line(l) == Strip(cleaned_line(l))

\* Mutant of filterLine: the `if stripped_line:` test is missing.
filterLine_NoEmptyTest(l) == Some(stripped_line(l))

\* The whole loop body seen as a function of the line: the string written
\* (without its terminator) or Absent when `if stripped_line:` is false.
filterLine(l) == IF stripped_line(l) # <<>> THEN Some(stripped_line(l)) ELSE Absent


(***************************************************************************)
(* Paths.                                                                  *)
(***************************************************************************)

\* str.rfind for a single character: the last index of c in p, 0 if none
\* (Python's -1, one-based).
RFind(p, c) ==
    LET hits == {i \in 1..Len(p) : p[i] = c}
    IN  IF hits = {} THEN 0 ELSE CHOOSE i \in hits : \A j \in hits : j <= i

\* Mutant of splitext: the extension starts at the last '.' of the last
\* component, leading dots included.
splitext_LastDot(p) ==
    LET sepIndex == RFind(p, 47)
        dotIndex == RFind(p, 46)
    IN  IF dotIndex > sepIndex
        THEN <<SubSeq(p, 1, dotIndex - 1), SubSeq(p, dotIndex, Len(p))>>
        ELSE <<p, << >> >>

\* os.path.splitext (posixpath: sep '/', extsep '.'): the extension starts
\* at the last '.' of the last path component, unless only '.' characters
\* come before that '.' in the component; <<root, ext>>.
splitext(p) ==
    LET sepIndex == RFind(p, 47)
        dotIndex == RFind(p, 46)
    IN  IF /\ dotIndex > sepIndex
           /\ \E i \in (sepIndex + 1)..(dotIndex - 1) : p[i] # 46
        THEN <<SubSeq(p, 1, dotIndex - 1), SubSeq(p, dotIndex, Len(p))>>
        ELSE <<p, << >> >>

\* The suffix of the f-string: "_cleaned"
cleaned_suffix == <<95, 99, 108, 101, 97, 110, 101, 100>>

\* Mutant of OutputPath: the suffix is missing from the f-string.
OutputPath_NoSuffix(p) == splitext(p)[1] \o splitext(p)[2]

\* f"{base_name}_cleaned{ext}"
OutputPath(p) == splitext(p)[1] \o cleaned_suffix \o splitext(p)[2]

\* str.lower(), on the ASCII letters the paths use
lower(p) == [i \in 1..Len(p) |-> IF p[i] \in 65..90 THEN p[i] + 32 ELSE p[i]]

\* str.endswith
endswith(p, suffix) ==
    /\ Len(p) >= Len(suffix)
    /\ SubSeq(p, Len(p) - Len(suffix) + 1, Len(p)) = suffix

\* '.txt'
dot_txt == <<46, 116, 120, 116>>

\* input_path.lower().endswith('.txt')
IsTxtPath(p) == endswith(lower(p), dot_txt)

(***************************************************************************)
(* Files.                                                                  *)
(***************************************************************************)

File(data) == [kind |-> "file", data |-> data]
Directory  == [kind |-> "dir", data |-> << >>]

\* os.path.isfile
isfile(p) == p \in DOMAIN fs /\ fs[p].kind = "file"

\* Text-mode reading with the default newline=None (universal newlines):
\* '\r\n' and a lone '\r' are both read as '\n'.
RECURSIVE TranslateNewlines(_)
TranslateNewlines(s) ==
    IF s = << >> THEN << >>
    ELSE IF Head(s) = 13
         THEN IF Len(s) >= 2 /\ s[2] = 10
              THEN NL \o TranslateNewlines(Tail(Tail(s)))
              ELSE NL \o TranslateNewlines(Tail(s))
         ELSE <<Head(s)>> \o TranslateNewlines(Tail(s))

\* Iterating a text file: each line ends with its '\n', except possibly the
\* last one.
RECURSIVE SplitLines(_)
SplitLines(s) ==
    IF s = << >> THEN << >>
    ELSE LET nl == {i \in 1..Len(s) : s[i] = 10}
         IN  IF nl = {} THEN << s >>
             ELSE LET k == CHOOSE i \in nl : \A j \in nl : i <= j
                  IN  << SubSeq(s, 1, k) >> \o SplitLines(SubSeq(s, k + 1, Len(s)))

\* The lines `for line in in_file` yields for a file of this content.
ReadLines(data) == SplitLines(TranslateNewlines(data))

\* Mutant of Truncate: the file is opened in append mode.
Truncate_AppendMode(f, p) ==
    [q \in DOMAIN f \cup {p} |-> IF q \in DOMAIN f THEN f[q] ELSE File(<< >>)]

\* open(path, 'w'): the file is created, or truncated if it exists.
Truncate(f, p) == [q \in DOMAIN f \cup {p} |-> IF q = p THEN File(<< >>) ELSE f[q]]

\* out_file.write(s) with newline='\n': s is appended as it is.
Append_(f, p, s) == [f EXCEPT ![p] = File(f[p].data \o s)]


(***************************************************************************)
(* The run: main and clean_text_file.                                      *)
(***************************************************************************)

\* sys.exit(n)
Exit(n) == exit_code' = n /\ pc' = "exit"

\* Mutant of MainArgs: only a missing argument is refused.
MainArgs_TooFewOnly ==
    /\ pc = "main"
    /\ IF Len(argv) < 2
       THEN /\ printed' = printed \o << <<"usage", << >> >>, <<"description", << >> >> >>
            /\ Exit(1)
            /\ UNCHANGED input_file_path
       ELSE /\ input_file_path' = argv[2]
            /\ pc' = "isfile"
            /\ UNCHANGED <<printed, exit_code>>
    /\ UNCHANGED <<argv, fs, output_file_path, total_lines, in_file, out_file,
                   done_lines, opened>>
    /\ UNCHANGED <<fs0, line, cleaned, recleaned, fpc>>

\* main: `if len(sys.argv) != 2`, then `input_path = sys.argv[1]`
MainArgs ==
    /\ pc = "main"
    /\ IF Len(argv) # 2
       THEN /\ printed' = printed \o << <<"usage", << >> >>, <<"description", << >> >> >>
            /\ Exit(1)
            /\ UNCHANGED input_file_path
       ELSE /\ input_file_path' = argv[2]
            /\ pc' = "isfile"
            /\ UNCHANGED <<printed, exit_code>>
    /\ UNCHANGED <<argv, fs, output_file_path, total_lines, in_file, out_file,
                   done_lines, opened>>
    /\ UNCHANGED <<fs0, line, cleaned, recleaned, fpc>>

\* main: `if not os.path.isfile(input_path)`
MainIsFile ==
    /\ pc = "isfile"
    /\ IF ~isfile(input_file_path)
       THEN /\ printed' = Append(printed, <<"not_found", input_file_path>>)
            /\ Exit(1)
       ELSE /\ pc' = "ext"
            /\ UNCHANGED <<printed, exit_code>>
    /\ UNCHANGED <<argv, fs, input_file_path, output_file_path, total_lines,
                   in_file, out_file, done_lines, opened>>
    /\ UNCHANGED <<fs0, line, cleaned, recleaned, fpc>>

\* Mutant of MainExt: the warning is followed by sys.exit(1).
MainExt_Fatal ==
    /\ pc = "ext"
    /\ IF ~IsTxtPath(input_file_path)
       THEN /\ printed' = Append(printed, <<"warning", << >> >>)
            /\ Exit(1)
       ELSE /\ pc' = "splitext"
            /\ UNCHANGED <<printed, exit_code>>
    /\ UNCHANGED <<argv, fs, input_file_path, output_file_path, total_lines,
                   in_file, out_file, done_lines, opened>>
    /\ UNCHANGED <<fs0, line, cleaned, recleaned, fpc>>

\* main: `if not input_path.lower().endswith('.txt')`: a warning, no exit
MainExt ==
    /\ pc = "ext"
    /\ printed' = IF ~IsTxtPath(input_file_path)
                  THEN Append(printed, <<"warning", << >> >>)
                  ELSE printed
    /\ pc' = "splitext"
    /\ UNCHANGED <<argv, fs, input_file_path, output_file_path, total_lines,
                   in_file, out_file, exit_code, done_lines, opened>>
    /\ UNCHANGED <<fs0, line, cleaned, recleaned, fpc>>

\* clean_text_file: the output file name
DerivePath ==
    /\ pc = "splitext"
    /\ output_file_path' = OutputPath(input_file_path)
    /\ pc' = "count"
    /\ UNCHANGED <<argv, fs, input_file_path, total_lines, in_file, out_file,
                   printed, exit_code, done_lines, opened>>
    /\ UNCHANGED <<fs0, line, cleaned, recleaned, fpc>>

\* First pass: open the input for reading and count its lines.
CountLines ==
    /\ pc = "count"
    /\ opened' = Append(opened, <<input_file_path, "r">>)
    /\ total_lines' = Len(ReadLines(fs[input_file_path].data))
    /\ pc' = "open_in"
    /\ UNCHANGED <<argv, fs, input_file_path, output_file_path, in_file,
                   out_file, printed, exit_code, done_lines>>
    /\ UNCHANGED <<fs0, line, cleaned, recleaned, fpc>>

\* Second pass: open the input for reading again.
OpenIn ==
    /\ pc = "open_in"
    /\ opened' = Append(opened, <<input_file_path, "r">>)
    /\ in_file' = ReadLines(fs[input_file_path].data)
    /\ pc' = "open_out"
    /\ UNCHANGED <<argv, fs, input_file_path, output_file_path, total_lines,
                   out_file, printed, exit_code, done_lines>>
    /\ UNCHANGED <<fs0, line, cleaned, recleaned, fpc>>

\* Second pass: open the output for writing (created or truncated).
OpenOut ==
    /\ pc = "open_out"
    /\ opened' = Append(opened, <<output_file_path, "w">>)
    /\ fs' = Truncate(fs, output_file_path)
    /\ out_file' = "open"
    /\ pc' = "loop"
    /\ UNCHANGED <<argv, input_file_path, output_file_path, total_lines,
                   in_file, printed, exit_code, done_lines>>
    /\ UNCHANGED <<fs0, line, cleaned, recleaned, fpc>>

\* One iteration of the loop: read a line, filter it, write it if not empty.
ProcessLine ==
    /\ pc = "loop"
    /\ in_file # << >>
    /\ LET l == Head(in_file)
       IN  /\ fs' = IF filterLine(l) # Absent
                    THEN Append_(fs, output_file_path, filterLine(l)[1] \o NL)
                    ELSE fs
           /\ done_lines' = Append(done_lines, l)
    /\ in_file' = Tail(in_file)
    /\ UNCHANGED <<argv, pc, input_file_path, output_file_path, total_lines,
                   out_file, printed, exit_code, opened>>
    /\ UNCHANGED <<fs0, line, cleaned, recleaned, fpc>>

\* The loop ends, the with block closes both files, clean_text_file returns
\* the output path and main prints it; the process ends with status 0.
Finish ==
    /\ pc = "loop"
    /\ in_file = << >>
    /\ out_file' = "closed"
    /\ printed' = Append(printed, <<"done", output_file_path>>)
    /\ Exit(0)
    /\ UNCHANGED <<argv, fs, input_file_path, output_file_path, total_lines,
                   in_file, done_lines, opened>>
    /\ UNCHANGED <<fs0, line, cleaned, recleaned, fpc>>

\* Mutant of IOFailure: the handler prints the error and returns the path
\* instead of exiting.
IOFailure_Swallowed ==
    /\ pc \in {"count", "open_in", "open_out", "loop"}
    /\ out_file' = "closed"
    /\ printed' = printed \o << <<"io_error", << >> >>, <<"done", output_file_path>> >>
    /\ Exit(0)
    /\ UNCHANGED <<argv, fs, input_file_path, output_file_path, total_lines,
                   in_file, done_lines, opened>>
    /\ UNCHANGED <<fs0, line, cleaned, recleaned, fpc>>

\* `except IOError` / `except Exception`: an open, read, write or close of
\* the try block raises; the with block closes what is open, the error is
\* printed and the process exits with status 1.
IOFailure ==
    /\ pc \in {"count", "open_in", "open_out", "loop"}
    /\ out_file' = "closed"
    /\ printed' = Append(printed, <<"io_error", << >> >>)
    /\ Exit(1)
    /\ UNCHANGED <<argv, fs, input_file_path, output_file_path, total_lines,
                   in_file, done_lines, opened>>
    /\ UNCHANGED <<fs0, line, cleaned, recleaned, fpc>>

(***************************************************************************)
(* The filter applied to one line, and to its own result.                  *)
(***************************************************************************)

FilterLine ==
    /\ fpc = "line"
    /\ cleaned' = filterLine(line)
    /\ fpc' = "cleaned"
    /\ UNCHANGED <<line, recleaned>>
    /\ UNCHANGED runVars

FilterAgain ==
    /\ fpc = "cleaned"
    /\ recleaned' = IF cleaned = Absent THEN Absent ELSE filterLine(cleaned[1])
    /\ fpc' = "recleaned"
    /\ UNCHANGED <<line, cleaned>>
    /\ UNCHANGED runVars

(***************************************************************************)
(* Initial states and specifications.                                      *)
(***************************************************************************)

prog == <<99, 46, 112, 121>>                \* "c.py"

\* Characters of the enumerated file contents: a, space, @, '\n', '\r'.
FileAlphabet == {97, 32, 64, 10, 13}

\* Characters of the enumerated paths: '.', '/', t, x, T.
PathAlphabet == {46, 47, 116, 120, 84}

\* Characters of the enumerated lines: the two ends of the ideograph range
\* and their outer neighbours, a, 0, space, '\n', the file separator
\* U+001C, ideographic space, @, ~, comma.
LineAlphabet ==
    {19967, 19968, 40869, 40870, 97, 48, 32, 10, 28, 12288, 64, 126, 44}

a_txt == <<97, 46, 116, 120, 116>>          \* "a.txt"
a_md  == <<97, 46, 109, 100>>               \* "a.md"
old   == <<64, 32, 10>>                     \* "@ \n", a previous output file

\* Five lines, two of them whitespace only: "a\n \na\n\na"
five_lines == <<97, 10, 32, 10, 97, 10, 10, 97>>

\* The three terminator conventions in one file: "a \r\n a\ra\n"
mixed_terminators == <<97, 32, 13, 10, 32, 97, 13, 97, 10>>

\* A path that can name a regular file: not empty, no trailing '/', and
\* its last component neither "." nor "..".
CanBeFile(p) ==
    LET name == SubSeq(p, RFind(p, 47) + 1, Len(p))
    IN  name # << >> /\ name # <<46>> /\ name # <<46, 46>>

NoRun ==
    /\ argv = << prog >>
    /\ fs = << >>
    /\ pc = "exit"
    /\ input_file_path = << >>
    /\ output_file_path = << >>
    /\ total_lines = 0
    /\ in_file = << >>
    /\ out_file = "closed"
    /\ printed = << >>
    /\ exit_code = 0
    /\ done_lines = << >>
    /\ opened = << >>
    /\ fs0 = << >>

NoFilter ==
    /\ line = << >>
    /\ cleaned = Absent
    /\ recleaned = Absent
    /\ fpc = "recleaned"

RunStart ==
    /\ pc = "main"
    /\ input_file_path = << >>
    /\ output_file_path = << >>
    /\ total_lines = 0
    /\ in_file = << >>
    /\ out_file = "closed"
    /\ printed = << >>
    /\ exit_code = -1
    /\ done_lines = << >>
    /\ opened = << >>

\* Spec: runs over every file content, with a .txt and a non-.txt path,
\* zero to two arguments, the path naming a file, a directory or nothing,
\* and the output path free or already taken by an older file.
Init ==
    /\ RunStart
    /\ NoFilter
    /\ \E p \in {a_txt, a_md} :
         /\ argv \in {<< prog >>, << prog, p >>, << prog, p, p >>}
         /\ \/ fs = << >>
            \/ fs = (p :> Directory)
            \/ \E data \in StringsUpTo(FileAlphabet, MaxFileLen) \cup {five_lines, mixed_terminators} :
                 \/ fs = (p :> File(data))
                 \/ fs = (p :> File(data)) @@ (OutputPath(p) :> File(old))
    /\ fs0 = fs

Next ==
    \/ MainArgs
    \/ MainIsFile
    \/ MainExt
    \/ DerivePath
    \/ CountLines
    \/ OpenIn
    \/ OpenOut
    \/ ProcessLine
    \/ Finish
    \/ IOFailure

Spec == Init /\ [][Next]_vars

\* SpecPath: the same run over every path, with one file content.
sample == <<97, 32, 64, 13, 10, 64, 10, 97>>      \* "a @\r\n@\na"

InitPath ==
    /\ RunStart
    /\ NoFilter
    /\ \E p \in StringsUpTo(PathAlphabet, MaxPathLen) :
         /\ argv = << prog, p >>
         /\ fs = IF CanBeFile(p) THEN (p :> File(sample)) ELSE << >>
    /\ fs0 = fs

SpecPath == InitPath /\ [][Next]_vars

\* SpecFilter: the filter on every line.
InitFilter ==
    /\ NoRun
    /\ line \in StringsUpTo(LineAlphabet, MaxLineLen)
    /\ cleaned = Absent
    /\ recleaned = Absent
    /\ fpc = "line"

NextFilter ==
    \/ FilterLine
    \/ FilterAgain

SpecFilter == InitFilter /\ [][NextFilter]_vars


(***************************************************************************)
(* Properties of the filter (SpecFilter).                                  *)
(***************************************************************************)

\* The punctuation marks the specification lists for CharacterWhitelist:
\* , . ! ? ; : ' " and the curly quotes, the fullwidth , . ! ? ; :, the
\* ideographic comma, the four bracket pairs, ellipsis, em dash, hyphen,
\* middle dot.
ListedPunctuation ==
    {44, 46, 33, 63, 59, 58, 39, 34, 8220, 8221, 8216, 8217,
     65292, 12290, 65281, 65311, 65307, 65306,
     12289, 12298, 12299, 12296, 12297, 12304, 12305, 12310, 12311,
     8230, 8212, 45, 183}

\* CharacterWhitelist as the specification enumerates it.
CharacterWhitelist(c) ==
    \/ c \in 19968..40869
    \/ c \in 65..90 \cup 97..122
    \/ c \in 48..57
    \/ IsSpace(c)
    \/ c \in ListedPunctuation

\* CharacterWhitelist with the tilde added.
WhitelistWithTilde(c) == CharacterWhitelist(c) \/ c = 126

\* r is k with its leading and trailing whitespace removed.
IsTrimOf(r, k) ==
    /\ \E i \in 1..(Len(k) + 1), j \in 0..Len(k) :
         /\ r = SubSeq(k, i, j)
         /\ \A m \in 1..(i - 1) : IsSpace(k[m])
         /\ \A m \in (j + 1)..Len(k) : IsSpace(k[m])
    /\ r # << >> => ~IsSpace(r[1]) /\ ~IsSpace(r[Len(r)])

\* The filter's result as a string: the empty string when nothing is emitted.
ResultString(res) == IF res = Absent THEN << >> ELSE res[1]

Filtered == fpc \in {"cleaned", "recleaned"}

\* C1 as stated: the filter result is exactly the characters of the line
\* that are in CharacterWhitelist as the specification enumerates it, in
\* their order, with leading and trailing whitespace removed, so every
\* emitted character is in that whitelist and every other one is removed.
C1_AsStated ==
    Filtered =>
        /\ IsTrimOf(ResultString(cleaned), SelectSeq(line, CharacterWhitelist))
        /\ \A i \in 1..Len(ResultString(cleaned)) :
             CharacterWhitelist(ResultString(cleaned)[i])

\* C1 amended: the same with '~' counted as a member of the whitelist: the
\* filter result is exactly the characters of the line that are in
\* CharacterWhitelist or are '~', in their order, trimmed; an empty result
\* is not emitted.
C1_WhitelistWithTilde ==
    Filtered =>
        /\ IsTrimOf(ResultString(cleaned), SelectSeq(line, WhitelistWithTilde))
        /\ \A i \in 1..Len(ResultString(cleaned)) :
             WhitelistWithTilde(ResultString(cleaned)[i])
        /\ cleaned # Absent => cleaned[1] # << >>

\* A line with a removed character, a kept tilde and trailing whitespace
\* has been filtered to a shorter, non-empty line.
C1_Witness ==
    /\ fpc = "cleaned"
    /\ \E i \in 1..Len(line) : line[i] = 64
    /\ \E i \in 1..Len(line) : line[i] = 126
    /\ line # << >> /\ IsSpace(line[Len(line)])
    /\ cleaned # Absent
    /\ Len(cleaned[1]) < Len(line) - 1

\* The line holds only whitespace and characters outside the given set.
OnlyBlankOrOutside(l, Member(_)) ==
    \A i \in 1..Len(l) : IsSpace(l[i]) \/ ~Member(l[i])

\* C2 as stated: a line made only of whitespace and of characters that are
\* not in the specification's CharacterWhitelist gives no output line.
C2_AsStated ==
    (Filtered /\ OnlyBlankOrOutside(line, CharacterWhitelist)) => cleaned = Absent

\* C2 amended: a line made only of whitespace and of characters that are
\* neither in CharacterWhitelist nor '~' gives no output line.
C2_BlankSuppression ==
    (Filtered /\ OnlyBlankOrOutside(line, WhitelistWithTilde)) => cleaned = Absent

\* A line of whitespace and removed characters, both present, was dropped.
C2_Witness ==
    /\ fpc = "cleaned"
    /\ OnlyBlankOrOutside(line, WhitelistWithTilde)
    /\ \E i \in 1..Len(line) : IsSpace(line[i])
    /\ \E i \in 1..Len(line) : ~WhitelistWithTilde(line[i])
    /\ cleaned = Absent

\* C3: idempotence.  When the filter emits a line, filtering that line
\* again emits it unchanged, and so does filtering it as it is read back
\* from the output file, with its '\n' terminator.
C3_Idempotence ==
    (fpc = "recleaned" /\ cleaned # Absent) =>
        /\ recleaned # Absent
        /\ recleaned = cleaned
        /\ filterLine(cleaned[1] \o NL) = cleaned

\* A line that the filter changed (a character removed, whitespace
\* trimmed) has been filtered twice.
C3_Witness ==
    /\ fpc = "recleaned"
    /\ cleaned # Absent
    /\ recleaned = cleaned
    /\ cleaned[1] # line
    /\ \E i \in 1..Len(line) : pattern(line[i])
    /\ \E i \in 1..Len(line) : IsSpace(line[i])


(***************************************************************************)
(* Properties of the run (Spec).                                           *)
(***************************************************************************)

\* The lines the filter emits for a sequence of input lines, in order.
RECURSIVE Emitted(_)
Emitted(ls) == IF ls = << >> THEN << >> ELSE filterLine(Head(ls)) \o Emitted(Tail(ls))

\* The text of a sequence of lines, each followed by one '\n'.
RECURSIVE Terminated(_)
Terminated(ls) == IF ls = << >> THEN << >> ELSE Head(ls) \o NL \o Terminated(Tail(ls))

\* The number of '\n' characters of a text.
NewlineCount(data) == Cardinality({i \in 1..Len(data) : data[i] = 10})

\* The run was given exactly one argument and it names a regular file.
GoodInvocation ==
    /\ Len(argv) = 2
    /\ argv[2] \in DOMAIN fs0
    /\ fs0[argv[2]].kind = "file"

\* The lines of the input file as the run started.
InputLines == ReadLines(fs0[argv[2]].data)

\* This run has opened the output file for writing.
OutOpened == \E i \in 1..Len(opened) : opened[i] = <<output_file_path, "w">>

\* What this run has written to the output file so far.
Written == fs[output_file_path].data

Has(kind) == \E i \in 1..Len(printed) : printed[i][1] = kind

\* C4: order preservation.  The lines processed so far are a prefix of the
\* input's lines; the output holds exactly the filter's results for them,
\* in input order, absent results dropped, one output line per input line
\* whose result is not empty; at exit 0 every input line was processed;
\* five lines with two whitespace-only ones give exactly three.
C4_OrderPreservation ==
    GoodInvocation =>
        /\ Len(done_lines) <= Len(InputLines)
        /\ done_lines = SubSeq(InputLines, 1, Len(done_lines))
        /\ OutOpened =>
             /\ Written = Terminated(Emitted(done_lines))
             /\ NewlineCount(Written) =
                  Cardinality({i \in 1..Len(done_lines) : filterLine(done_lines[i]) # Absent})
        /\ exit_code = 0 =>
             /\ done_lines = InputLines
             /\ fs0[argv[2]].data = five_lines => NewlineCount(Written) = 3

\* The five-line file has been processed to the end: three lines written,
\* over an older output file.
C4_Witness ==
    /\ GoodInvocation
    /\ fs0[argv[2]].data = five_lines
    /\ Cardinality(DOMAIN fs0) = 2
    /\ exit_code = 0
    /\ Len(done_lines) = 5
    /\ NewlineCount(Written) = 3

\* C5: whatever the input's terminators, what has been written to the
\* output is a sequence of lines each ended by one '\n': no '\r', no empty
\* line, and no line starts or ends with whitespace.
C5_OutputLines ==
    OutOpened =>
        /\ \A i \in 1..Len(Written) : Written[i] # 13
        /\ Written # << >> => Written[Len(Written)] = 10
        /\ \A i \in 1..Len(Written) :
             /\ Written[i] = 10 => i > 1 /\ ~IsSpace(Written[i - 1])
             /\ (i = 1 \/ Written[i - 1] = 10) => ~IsSpace(Written[i])

\* The input using '\r\n', a lone '\r' and '\n', with outer whitespace on
\* its lines, has been processed into three output lines.
C5_Witness ==
    /\ GoodInvocation
    /\ exit_code = 0
    /\ fs0[argv[2]].data = mixed_terminators
    /\ Written = <<97, 10, 97, 10, 97, 10>>

\* C7: with a number of arguments other than one, or a path that is not an
\* existing regular file, the run reads nothing, opens nothing and leaves
\* the file system as it found it, and can only print a message and exit
\* with status 1; the argument count is checked first, so a wrong count
\* gives the usage message whatever the paths name.
C7_ValidationFirst ==
    ~GoodInvocation =>
        /\ opened = << >>
        /\ fs = fs0
        /\ out_file = "closed"
        /\ done_lines = << >>
        /\ pc \in {"main", "isfile", "exit"}
        /\ pc # "exit" => ENABLED Next
        /\ pc = "exit" => exit_code = 1
        /\ Len(argv) # 2 =>
             /\ pc # "isfile"
             /\ pc = "exit" => printed = << <<"usage", << >> >>, <<"description", << >> >> >>
        /\ (Len(argv) = 2 /\ pc = "exit") =>
             printed = << <<"not_found", argv[2]>> >>

\* A run with two arguments naming an existing file has exited on the
\* usage message.
C7_Witness ==
    /\ Len(argv) = 3
    /\ argv[2] \in DOMAIN fs0
    /\ fs0[argv[2]].kind = "file"
    /\ pc = "exit"
    /\ exit_code = 1
    /\ Has("usage")

\* C8: no partial success.  A finished run has status 0 or 1 and takes no
\* further step; status 0 means every input line was processed, the output
\* file is complete and closed, and its path was printed last; a run in
\* which an I/O error was raised has status 1, never 0, and opened no file
\* twice for the same pass.
C8_NoPartialSuccess ==
    /\ exit_code \in {-1, 0, 1}
    /\ (pc = "exit") <=> (exit_code \in {0, 1})
    /\ pc = "exit" => ~ENABLED Next
    /\ exit_code = 0 =>
         /\ GoodInvocation
         /\ in_file = << >>
         /\ done_lines = InputLines
         /\ Written = Terminated(Emitted(InputLines))
         /\ out_file = "closed"
         /\ printed[Len(printed)] = <<"done", output_file_path>>
         /\ ~Has("io_error")
    /\ Has("io_error") =>
         /\ exit_code = 1
         /\ printed[Len(printed)][1] = "io_error"
    /\ Len(opened) <= 3

\* A run was aborted by an I/O error after it had written part of the
\* output: status 1, lines left unread.
C8_Witness ==
    /\ Has("io_error")
    /\ exit_code = 1
    /\ OutOpened
    /\ Written # << >>
    /\ in_file # << >>


(***************************************************************************)
(* Properties of the paths (SpecPath).                                     *)
(***************************************************************************)

\* The last component of a path: what follows its last '/'.
LastComponent(p) == SubSeq(p, RFind(p, 47) + 1, Len(p))

\* The directory part of a path: everything up to and including its last '/'.
DirPart(p) == SubSeq(p, 1, RFind(p, 47))

\* The last '.'-suffix of the last component of p, empty when it has no '.'.
LastDotSuffix(p) ==
    IF RFind(LastComponent(p), 46) = 0 THEN << >>
    ELSE SubSeq(LastComponent(p), RFind(LastComponent(p), 46), Len(LastComponent(p)))

\* The last '.'-suffix of the last component, provided a character other
\* than '.' comes before that '.' in the component; empty otherwise.
ProperExtension(p) ==
    LET name == LastComponent(p)
        d    == RFind(name, 46)
    IN  IF d # 0 /\ \E i \in 1..(d - 1) : name[i] # 46
        THEN SubSeq(name, d, Len(name))
        ELSE << >>

\* p with the suffix '_cleaned' inserted before its ending ext.
InsertedBefore(p, ext) ==
    SubSeq(p, 1, Len(p) - Len(ext)) \o <<95, 99, 108, 101, 97, 110, 101, 100>> \o ext

PathDerived == output_file_path # << >>

t_txt == <<116, 46, 116, 120, 116>>         \* "t.txt"
tt    == <<116, 116>>                       \* "tt"

\* C6 as stated: the output path is the input path with '_cleaned'
\* inserted before the last '.'-suffix of its last component, appended when
\* there is none; the directory part is unchanged.
C6_AsStated ==
    PathDerived =>
        /\ output_file_path = InsertedBefore(input_file_path, LastDotSuffix(input_file_path))
        /\ DirPart(output_file_path) = DirPart(input_file_path)

\* C6 amended: the extension is the last '.'-suffix of the last component
\* only when some character other than '.' comes before that '.' in the
\* component; otherwise (a name such as ".t" or "..t") the file has no
\* extension and '_cleaned' is appended.  "t.txt" gives "t_cleaned.txt" and
\* "tt" gives "tt_cleaned"; the directory part is unchanged.
C6_OutputPath ==
    PathDerived =>
        /\ output_file_path = InsertedBefore(input_file_path, ProperExtension(input_file_path))
        /\ DirPart(output_file_path) = DirPart(input_file_path)
        /\ input_file_path = t_txt =>
             output_file_path = <<116, 95, 99, 108, 101, 97, 110, 101, 100, 46, 116, 120, 116>>
        /\ input_file_path = tt =>
             output_file_path = <<116, 116, 95, 99, 108, 101, 97, 110, 101, 100>>

\* The output path was derived for a file in a directory whose name has a
\* dot, the file name having two dots: the suffix went before the last one.
C6_Witness ==
    /\ PathDerived
    /\ RFind(input_file_path, 47) > 1
    /\ \E i \in 1..RFind(input_file_path, 47) : input_file_path[i] = 46
    /\ ProperExtension(input_file_path) # << >>
    /\ Len(output_file_path) = Len(input_file_path) + 8
    /\ endswith(output_file_path, ProperExtension(input_file_path))

\* The ASCII lower-case form of a character.
ToLower(c) == IF c \in 65..90 THEN c + 32 ELSE c

\* The path ends in ".txt", letters compared without regard to case.
EndsInTxtAnyCase(p) ==
    /\ Len(p) >= 4
    /\ ToLower(p[Len(p) - 3]) = 46
    /\ ToLower(p[Len(p) - 2]) = 116
    /\ ToLower(p[Len(p) - 1]) = 120
    /\ ToLower(p[Len(p)]) = 116

\* The run is past main's extension check.
PastExtensionCheck ==
    \/ pc \in {"splitext", "count", "open_in", "open_out", "loop"}
    \/ pc = "exit" /\ ~Has("not_found") /\ ~Has("usage")

\* What a warned run shows: the warning was the first thing printed, before
\* any file was opened or line processed; it did not end the run, which
\* ends only on an I/O error or on success; and on success the output is
\* the filter's result for the content alone, whatever the path.
WarnedAndProcessed ==
    /\ printed # << >> /\ printed[1] = <<"warning", << >> >>
    /\ Cardinality({i \in 1..Len(printed) : printed[i][1] = "warning"}) = 1
    /\ pc = "exit" => printed[Len(printed)][1] \in {"io_error", "done"}
    /\ (pc = "exit" /\ ~Has("io_error")) => exit_code = 0
    /\ exit_code = 0 => Written = Terminated(Emitted(InputLines))

\* C9 as stated: for every existing regular file whose extension is not
\* ".txt", the warning is printed, before any line is processed, and the
\* file is then processed as under a ".txt" name.
C9_AsStated ==
    (GoodInvocation /\ PastExtensionCheck /\ LastDotSuffix(argv[2]) # dot_txt) =>
        WarnedAndProcessed

\* C9 amended: for every existing regular file whose path does not end in
\* ".txt", compared without regard to case, the warning is printed, before
\* any line is processed, and the file is then processed as under a ".txt"
\* name.
C9_WarningNonFatal ==
    (GoodInvocation /\ PastExtensionCheck /\ ~EndsInTxtAnyCase(argv[2])) =>
        WarnedAndProcessed

\* A file with an extension other than ".txt" was warned about and then
\* processed to the end.
C9_Witness ==
    /\ GoodInvocation
    /\ ~EndsInTxtAnyCase(argv[2])
    /\ ProperExtension(argv[2]) # << >>
    /\ Has("warning")
    /\ exit_code = 0
    /\ Written = <<97, 10, 97, 10>>

\* C10: the input file is never written.  The output path differs from the
\* input path; the input is opened only for reading, at most twice; the
\* output is opened for writing only after the line-count pass is over;
\* every file that existed keeps its content, the output path excepted.
C10_InputUntouched ==
    /\ PathDerived => output_file_path # input_file_path
    /\ \A i \in 1..Len(opened) :
         /\ opened[i][1] = input_file_path => opened[i][2] = "r"
         /\ opened[i][2] = "r" => opened[i][1] = input_file_path
         /\ opened[i][2] = "w" =>
              /\ opened[i][1] = output_file_path
              /\ i > 1
              /\ opened[1] = <<input_file_path, "r">>
              /\ total_lines = Len(InputLines)
    /\ Cardinality({i \in 1..Len(opened) : opened[i][2] = "r"}) <= 2
    /\ \A q \in DOMAIN fs0 :
         (PathDerived => q # output_file_path) => (q \in DOMAIN fs /\ fs[q] = fs0[q])

\* A run has written its whole output and ended, the input still in place.
C10_Witness ==
    /\ GoodInvocation
    /\ exit_code = 0
    /\ Len(opened) = 3
    /\ Written # << >>
    /\ fs[input_file_path] = fs0[input_file_path]

====
